---- MODULE Spec2Model ----
(***************************************************************************)
(* Honest-DiD identified sets and conditional confidence sets for the      *)
(* restriction families                                                    *)
(*   RMM   = relative magnitudes /\ monotonicity        (rm/rmm.py)        *)
(*   SDRMB = second differences with relative magnitudes /\ bias sign      *)
(*                                                       (sdrm/sdrmb.py)   *)
(* The entry points are pure functions: a step is one call of one public   *)
(* entry point, from its arguments to the error it raises or the value it  *)
(* returns, together with the trace of what it did on the way (the         *)
(* per-configuration evaluations in loop order, the matrices built, the    *)
(* linear programs solved, the oracle calls made).  Real numbers are exact *)
(* rationals <<numerator, denominator>>.  The two linear programs of a     *)
(* configuration are solved exactly (vertex enumeration over the           *)
(* post-period block, the pre-period block being pinned by the equality    *)
(* constraint).  The ARP oracles are external: an oracle is a fixed but    *)
(* unknown function of its arguments, drawn from a bounded family.         *)
(***************************************************************************)
EXTENDS Integers, Sequences, FiniteSets, TLC

(* ------------------------------ bounds -------------------------------- *)
\* num_pre_periods ranges over 0..MaxPre (0 and 1 are the invalid inputs)
MaxPre == 3
\* m_bar ranges over 0..MaxMBar
MaxMBar == 2
\* the oracle family has 2^WorldBits members
WorldBits == 3

\* numbers of post-periods tried: the exact LP solver handles a post block
\* of one or two coordinates
PostCounts == {1, 2}
\* event-study coefficients of the pre-periods and of the post-periods
PreBetas == {-1, 0, 1}
PostBetas == {-1, 0}
\* grid sizes tried
GridCounts == {3}
\* variances on the diagonal of sigma (perfect squares keep sd_theta exact)
Variances == {4}

\* Python's None for an optional argument or field; Some(x) is a value given
None == <<>>
Some(x) == <<x>>
\* the error field of a call that returned normally
NoError == ""

(* ----------------------- exact rational numbers ----------------------- *)
Abs(n) == IF n < 0 THEN -n ELSE n

RECURSIVE GCD(_, _)
GCD(a, b) == IF b = 0 THEN a ELSE GCD(b, a % b)

\* the rational n/d in lowest terms with a positive denominator
Norm(n, d) ==
    LET g == GCD(Abs(n), Abs(d))
        sg == IF d < 0 THEN -1 ELSE 1
    IN  <<sg * (n \div g), sg * (d \div g)>>

Rat(n) == <<n, 1>>
RAdd(a, b) == Norm(a[1] * b[2] + b[1] * a[2], a[2] * b[2])
RNeg(a) == <<-a[1], a[2]>>
RSub(a, b) == RAdd(a, RNeg(b))
RScale(k, a) == Norm(k * a[1], a[2])
RDivInt(a, k) == Norm(a[1], a[2] * k)
RLeq(a, b) == a[1] * b[2] <= b[1] * a[2]
RLt(a, b) == a[1] * b[2] < b[1] * a[2]
RMinSet(S) == CHOOSE x \in S : \A y \in S : RLeq(x, y)
RMaxSet(S) == CHOOSE x \in S : \A y \in S : RLeq(y, x)

(* --------------------------- small helpers ---------------------------- *)
\* F(v), the value of v being computed once (a local variable of the code)
Bind(v, F(_)) == CHOOSE r \in {F(x) : x \in {v}} : TRUE
Max(a, b) == IF a >= b THEN a ELSE b
\* list(range(lo, hi))
PyRange(lo, hi) == [i \in 1..Max(0, hi - lo) |-> lo + i - 1]
Dot(u, v) ==
    LET Sum(p) == LET RECURSIVE S(_)
                      S(i) == IF i = 0 THEN 0 ELSE p[1][i] * p[2][i] + S(i - 1)
                  IN  S(Len(p[1]))
    IN  Bind(<<u, v>>, Sum)
SumSeq(q) == Dot(q, [i \in 1..Len(q) |-> 1])
ZeroVec(n) == [i \in 1..n |-> 0]
IsZeroRow(r) == \A i \in 1..Len(r) : r[i] = 0
\* the rows of A that satisfy keep, in order
\* a selection that keeps no row
filter_rows_keeps_none(A, keep) == <<>>

FilterRows(A, keep) ==
    LET Pick(idx) ==
            [k \in 1..Cardinality(idx) |->
                A[CHOOSE r \in idx : Cardinality({q \in idx : q < r}) = k - 1]]
    IN  Bind({r \in 1..Len(A) : keep[r]}, Pick)
\* integer square root of a perfect square
ISqrt(n) == CHOOSE r \in 0..n : r * r = n
IsSquare(n) == \E r \in 0..n : r * r = n

(* -------------- single-restriction constraint factories --------------- *)
(* A matrix is a sequence of rows; a row has one entry per coefficient of  *)
(* delta: columns 1..num_pre_periods are the periods -num_pre_periods..-1, *)
(* the following columns the periods 1..num_post_periods.  The factories   *)
(* first build rows that include the reference period 0 (column            *)
(* num_pre_periods + 1) and then drop that column.                         *)
VSub(u, v) == [i \in 1..Len(u) |-> u[i] - v[i]]
VNeg(u) == [i \in 1..Len(u) |-> -u[i]]
VScale(k, u) == [i \in 1..Len(u) |-> k * u[i]]
DropCol(row, k) == [i \in 1..(Len(row) - 1) |-> IF i < k THEN row[i] ELSE row[i + 1]]
DropZeroRows(A) ==
    Bind(A, LAMBDA M : Bind([r \in 1..Len(M) |-> ~IsZeroRow(M[r])],
                            LAMBDA keep : FilterRows(M, keep)))

\* first difference delta_t - delta_{t-1}, the row starting at column r
FirstDiff(r, n) == [i \in 1..n |-> IF i = r THEN -1 ELSE IF i = r + 1 THEN 1 ELSE 0]
\* second difference delta_{t+1} - 2 delta_t + delta_{t-1}, starting at column r
SecondDiff(r, n) ==
    [i \in 1..n |-> IF i = r \/ i = r + 2 THEN 1 ELSE IF i = r + 1 THEN -2 ELSE 0]

\* |first difference at t| <= (sign) first difference at s, times m_bar for t > 0
_create_relative_magnitudes_constraint_matrix(num_pre_periods, num_post_periods, m_bar, s, max_positive) ==
    LET T == num_pre_periods + num_post_periods
        v0 == FirstDiff(num_pre_periods + s, T + 1)
        Stack(v_max_dif) ==
            LET A_UB(r) == IF r <= num_pre_periods THEN v_max_dif ELSE VScale(m_bar, v_max_dif)
                upper == [r \in 1..T |-> VSub(FirstDiff(r, T + 1), A_UB(r))]
                lower == [r \in 1..T |-> VSub(VNeg(FirstDiff(r, T + 1)), A_UB(r))]
            IN  upper \o lower
        Strip(A) == [r \in 1..Len(A) |-> DropCol(A[r], num_pre_periods + 1)]
    IN  Bind(DropZeroRows(Bind(IF max_positive THEN v0 ELSE VNeg(v0), Stack)), Strip)

\* delta_t >= delta_{t-1} for every t ("increasing"), the reverse for "decreasing"
create_monotonicity_constraint_matrix(num_pre_periods, num_post_periods, monotonicity_direction) ==
    LET T == num_pre_periods + num_post_periods
        row(r) == [i \in 1..T |->
                     IF r < num_pre_periods
                     THEN (IF i = r THEN 1 ELSE IF i = r + 1 THEN -1 ELSE 0)
                     ELSE IF r = num_pre_periods THEN (IF i = r THEN 1 ELSE 0)
                     ELSE IF r = num_pre_periods + 1 THEN (IF i = r THEN -1 ELSE 0)
                     ELSE (IF i = r - 1 THEN 1 ELSE IF i = r THEN -1 ELSE 0)]
    IN  [r \in 1..T |-> IF monotonicity_direction = "decreasing" THEN VNeg(row(r)) ELSE row(r)]

\* |second difference at t| <= (sign) second difference at s, times m_bar for t > 0
create_sdrm_constraint_matrix(num_pre_periods, num_post_periods, m_bar, s, max_positive) ==
    LET T == num_pre_periods + num_post_periods
        v0 == SecondDiff(num_pre_periods + s - 1, T + 1)
        Stack(v_max_dif) ==
            LET A_UB(r) == IF r <= num_pre_periods - 1 THEN v_max_dif
                           ELSE VScale(m_bar, v_max_dif)
                upper == [r \in 1..(T - 1) |-> VSub(SecondDiff(r, T + 1), A_UB(r))]
                lower == [r \in 1..(T - 1) |-> VSub(VNeg(SecondDiff(r, T + 1)), A_UB(r))]
            IN  upper \o lower
        Strip(A) == [r \in 1..Len(A) |-> DropCol(A[r], num_pre_periods + 1)]
    IN  Bind(DropZeroRows(Bind(IF max_positive THEN v0 ELSE VNeg(v0), Stack)), Strip)

\* delta_t >= 0 for every post-period t ("positive"), <= 0 for "negative"
create_sign_constraint_matrix(num_pre_periods, num_post_periods, bias_direction) ==
    LET T == num_pre_periods + num_post_periods
        row(j) == [i \in 1..T |-> IF i = num_pre_periods + j THEN -1 ELSE 0]
    IN  [j \in 1..num_post_periods |-> IF bias_direction = "negative" THEN VNeg(row(j)) ELSE row(j)]

\* a selector that reports every row of A
find_rows_all(A, post_period_indices) == 1..Len(A)

\* indices of the rows of A with a nonzero entry in some column of post_period_indices
find_rows_with_post_period_values(A, post_period_indices) ==
    {r \in 1..Len(A) : \E c \in post_period_indices : A[r][c] # 0}

\* first-post-period indicator and its relatives
basis_vector(index, size) == [i \in 1..size |-> IF i = index THEN 1 ELSE 0]

(* -------------------- constraint matrix composer ---------------------- *)
\* a composer that exchanges m_bar = 0 and m_bar = 1
rmm_matrix_exchanged(num_pre_periods, num_post_periods, m_bar, s, max_positive, monotonicity_direction) ==
    _create_relative_magnitudes_constraint_matrix(
        num_pre_periods, num_post_periods, IF m_bar = 0 THEN 1 ELSE IF m_bar = 1 THEN 0 ELSE m_bar,
        s, max_positive)
    \o create_monotonicity_constraint_matrix(
           num_pre_periods, num_post_periods, monotonicity_direction)

_create_relative_magnitudes_monotonicity_constraint_matrix(num_pre_periods, num_post_periods, m_bar, s, max_positive, monotonicity_direction) ==
    LET A_rm == _create_relative_magnitudes_constraint_matrix(
                    num_pre_periods, num_post_periods, m_bar, s, max_positive)
        A_m == create_monotonicity_constraint_matrix(
                    num_pre_periods, num_post_periods, monotonicity_direction)
    IN  A_rm \o A_m

\* the period counts and smoothness bounds tried
PreCounts == 0..MaxPre
MBars == 0..MaxMBar

\* the coefficient vectors and parameter-of-interest vectors tried
Betas(num_pre_periods, num_post_periods) ==
    {pre \o post : pre \in [1..num_pre_periods -> PreBetas],
                   post \in {[i \in 1..num_post_periods |-> IF i = 1 THEN b ELSE 1 - b] : b \in PostBetas}}
LVecs(num_post_periods) ==
    IF num_post_periods = 1 THEN {<<1>>, <<-2>>} ELSE {<<1, 0>>, <<0, 1>>, <<1, -1>>}

\* the matrix of every configuration a call within the bounds can ask for, built once
RmmMatrices ==
    [k \in {x \in (1..MaxPre) \X PostCounts \X MBars \X ((1 - MaxPre)..0) \X BOOLEAN \X {"increasing", "decreasing"} : x[1] + x[4] >= 1} |->
        _create_relative_magnitudes_monotonicity_constraint_matrix(k[1], k[2], k[3], k[4], k[5], k[6])]
\* A_rmm = _create_relative_magnitudes_monotonicity_constraint_matrix(...) at a call site
RmmMatrixOf(num_pre_periods, num_post_periods, m_bar, s, max_positive, monotonicity_direction) ==
    RmmMatrices[<<num_pre_periods, num_post_periods, m_bar, s, max_positive, monotonicity_direction>>]

\* a constraint vector of ones
constraint_vector_of_ones(A_rmm) == [i \in 1..Len(A_rmm) |-> 1]

_create_relative_magnitudes_monotonicity_constraint_vector(A_rmm) == ZeroVec(Len(A_rmm))

\* a composer that exchanges m_bar = 0 and m_bar = 1
sdrmb_matrix_exchanged(num_pre_periods, num_post_periods, m_bar, s, max_positive, bias_direction) ==
    create_sdrm_constraint_matrix(
        num_pre_periods, num_post_periods, IF m_bar = 0 THEN 1 ELSE IF m_bar = 1 THEN 0 ELSE m_bar,
        s, max_positive)
    \o create_sign_constraint_matrix(num_pre_periods, num_post_periods, bias_direction)

\* a composer that stacks the sign rows above the second-difference rows
sdrmb_matrix_sign_rows_first(num_pre_periods, num_post_periods, m_bar, s, max_positive, bias_direction) ==
    create_sign_constraint_matrix(num_pre_periods, num_post_periods, bias_direction)
    \o create_sdrm_constraint_matrix(num_pre_periods, num_post_periods, m_bar, s, max_positive)

_create_sdrmb_constraint_matrix(num_pre_periods, num_post_periods, m_bar, s, max_positive, bias_direction) ==
    LET a_sdrm == create_sdrm_constraint_matrix(
                    num_pre_periods, num_post_periods, m_bar, s, max_positive)
        a_sign == create_sign_constraint_matrix(
                    num_pre_periods, num_post_periods, bias_direction)
    IN  a_sdrm \o a_sign

\* the matrix of every configuration a call within the bounds can ask for, built once
SdrmbMatrices ==
    [k \in {x \in (2..MaxPre) \X PostCounts \X MBars \X ((2 - MaxPre)..(-1)) \X BOOLEAN \X {"positive", "negative"} : x[1] + x[4] >= 2} |->
        _create_sdrmb_constraint_matrix(k[1], k[2], k[3], k[4], k[5], k[6])]
\* a_sdrmb = _create_sdrmb_constraint_matrix(...) at a call site
SdrmbMatrixOf(num_pre_periods, num_post_periods, m_bar, s, max_positive, bias_direction) ==
    SdrmbMatrices[<<num_pre_periods, num_post_periods, m_bar, s, max_positive, bias_direction>>]

_create_sdrmb_constraint_vector(a_matrix) == ZeroVec(Len(a_matrix))

(* ------------------------- linear programming ------------------------- *)
(* scipy.optimize.linprog(c, A_ub, b_ub, A_eq, b_eq, bounds): minimise     *)
(* c.x subject to A_ub x <= b_ub, A_eq x = b_eq and the box `bounds`.      *)
(* bounds = None is scipy's default box, x >= 0 in every coordinate; a     *)
(* list of (None, None) pairs leaves every coordinate free.  Every row of  *)
(* A_eq here is a unit vector, so it pins one coordinate; the remaining    *)
(* one or two coordinates span the search, and the optimum of a bounded    *)
(* feasible region is attained at a vertex.                                *)
\* [(None, None) for _ in range(n)]: the same free pair for every coordinate
FreeBounds(n) == [i \in 1..n |-> <<None, None>>]

\* the coordinate a unit row of A_eq pins
PinnedCol(row) == CHOOSE j \in 1..Len(row) : row[j] # 0

\* the inequality rows, the box included, as <<a, b, rhs>> over the free
\* coordinates (x, y) once the pinned coordinates are substituted
ReducedRows(A_ub, b_ub, A_eq, b_eq, bounds) ==
    LET n == Len(A_eq[1])
        pinned == {PinnedCol(A_eq[r]) : r \in 1..Len(A_eq)}
        val(j) == LET r == CHOOSE q \in 1..Len(A_eq) : PinnedCol(A_eq[q]) = j
                  IN  b_eq[r]
        free == {j \in 1..n : j \notin pinned}
        x == CHOOSE j \in free : \A k \in free : j <= k
        hasY == Cardinality(free) > 1
        y == IF hasY THEN CHOOSE j \in free : j # x ELSE 0
        box == IF bounds = None
               THEN [j \in 1..n |-> [i \in 1..n |-> IF i = j THEN -1 ELSE 0]]
               ELSE <<>>
        point == [j \in 1..n |-> IF j \in pinned THEN val(j) ELSE 0]
    IN  Bind(<<A_ub \o box, b_ub \o ZeroVec(Len(box)), point>>,
             LAMBDA m : {<<m[1][r][x], IF hasY THEN m[1][r][y] ELSE 0,
                           m[2][r] - Dot(m[1][r], m[3])>> : r \in 1..Len(m[1])})
        \cup (IF hasY THEN {} ELSE {<<0, 1, 0>>, <<0, -1, 0>>})

\* the vertices <<Dx, Dy, D>> (the point (Dx/D, Dy/D)) of the feasible region
Vertices(R) ==
    LET cross(p, q) == <<p[3] * q[2] - q[3] * p[2], p[1] * q[3] - q[1] * p[3], p[1] * q[2] - q[1] * p[2]>>
        ok(v, r) == IF v[3] > 0 THEN r[1] * v[1] + r[2] * v[2] <= r[3] * v[3]
                    ELSE r[1] * v[1] + r[2] * v[2] >= r[3] * v[3]
        Feasible(P) ==
            Bind({cross(p, q) : p \in P, q \in P},
                 LAMBDA cand : {v \in cand : v[3] # 0 /\ \A r \in P : ok(v, r)})
    IN  IF \E r \in R : r[1] = 0 /\ r[2] = 0 /\ r[3] < 0 THEN {}
        ELSE Bind({r \in R : r[1] # 0 \/ r[2] # 0}, Feasible)

\* a solver that maximises c'x
linprog_maximize(c, A_ub, b_ub, A_eq, b_eq, bounds) ==
    LET n == Len(c)
        pinned == {PinnedCol(A_eq[r]) : r \in 1..Len(A_eq)}
        free == {j \in 1..n : j \notin pinned}
        x == CHOOSE j \in free : \A k \in free : j <= k
        y == IF Cardinality(free) > 1 THEN CHOOSE j \in free : j # x ELSE 0
        cy == IF y = 0 THEN 0 ELSE c[y]
        R == ReducedRows(A_ub, b_ub, A_eq, b_eq, bounds)
        Solve(V) == IF V = {} THEN [success |-> FALSE, fun |-> None]
                    ELSE [success |-> TRUE,
                          fun |-> Some(RMaxSet({Norm(c[x] * v[1] + cy * v[2], v[3]) : v \in V}))]
    IN  Bind(Vertices(R), Solve)

\* scipy.optimize.linprog(method="highs"): minimise c'x; success is False when the
\* program is infeasible
linprog(c, A_ub, b_ub, A_eq, b_eq, bounds) ==
    LET n == Len(c)
        pinned == {PinnedCol(A_eq[r]) : r \in 1..Len(A_eq)}
        free == {j \in 1..n : j \notin pinned}
        x == CHOOSE j \in free : \A k \in free : j <= k
        y == IF Cardinality(free) > 1 THEN CHOOSE j \in free : j # x ELSE 0
        cy == IF y = 0 THEN 0 ELSE c[y]
        R == ReducedRows(A_ub, b_ub, A_eq, b_eq, bounds)
        Solve(V) == IF V = {} THEN [success |-> FALSE, fun |-> None]
                    ELSE [success |-> TRUE,
                          fun |-> Some(RMinSet({Norm(c[x] * v[1] + cy * v[2], v[3]) : v \in V}))]
    IN  Bind(Vertices(R), Solve)

(* ------------------------ identified-set solver ----------------------- *)
\* the leading coefficients in the place of the post-period ones
LeadingBlock(beta, num_pre_periods) == SubSeq(beta, 1, Len(beta) - num_pre_periods)
\* true_beta[num_pre_periods:]
PostBlock(beta, num_pre_periods) == SubSeq(beta, num_pre_periods + 1, Len(beta))
\* true_beta[:num_pre_periods]
PreBlock(beta, num_pre_periods) == SubSeq(beta, 1, num_pre_periods)
\* an equality block that pins the coordinates one place to the right
pre_period_equality_shifted(num_pre_periods, num_post_periods) ==
    [r \in 1..num_pre_periods |-> basis_vector(r + 1, num_pre_periods + num_post_periods)]
\* np.hstack([np.eye(num_pre_periods), np.zeros((num_pre_periods, num_post_periods))])
PrePeriodEquality(num_pre_periods, num_post_periods) ==
    [r \in 1..num_pre_periods |-> basis_vector(r, num_pre_periods + num_post_periods)]

_compute_identified_set_rmm_fixed_s(s, m_bar, max_positive, true_beta, l_vec, num_pre_periods, num_post_periods, monotonicity_direction) ==
    LET f_delta == ZeroVec(num_pre_periods) \o l_vec
        A_rmm == RmmMatrixOf(
                    num_pre_periods, num_post_periods, m_bar, s, max_positive, monotonicity_direction)
        d_rmm == _create_relative_magnitudes_monotonicity_constraint_vector(A_rmm)
        A_eq == PrePeriodEquality(num_pre_periods, num_post_periods)
        b_eq == PreBlock(true_beta, num_pre_periods)
        bounds == FreeBounds(num_pre_periods + num_post_periods)
        observed_val == Dot(l_vec, PostBlock(true_beta, num_pre_periods))
        Result(result_max, result_min) ==
            [max_success |-> result_max.success, min_success |-> result_min.success] @@
            (IF ~result_max.success \/ ~result_min.success
             THEN [id_lb |-> Rat(observed_val), id_ub |-> Rat(observed_val)]
             ELSE [id_lb |-> RAdd(Rat(observed_val), result_max.fun[1]),
                   id_ub |-> RSub(Rat(observed_val), result_min.fun[1])])
        Solve(A, d) ==
            Bind(<<linprog(VNeg(f_delta), A, d, A_eq, b_eq, bounds),
                   linprog(f_delta, A, d, A_eq, b_eq, bounds)>>,
                 LAMBDA res : Result(res[1], res[2])
                                @@ [n_rows |-> Len(A), d_vec |-> d, bounds |-> bounds,
                                    lp_max |-> [c |-> VNeg(f_delta), A_ub |-> A, b_ub |-> d,
                                                A_eq |-> A_eq, b_eq |-> b_eq, bounds |-> bounds],
                                    lp_min |-> [c |-> f_delta, A_ub |-> A, b_ub |-> d,
                                                A_eq |-> A_eq, b_eq |-> b_eq, bounds |-> bounds]])
    IN  Bind(<<A_rmm, d_rmm>>, LAMBDA m : Solve(m[1], m[2]))

\* a solver whose failed configuration reports the interval {0}
identified_set_sdrmb_fixed_s_zero_fallback(s, m_bar, max_positive, true_beta, l_vec, num_pre_periods, num_post_periods, bias_direction) ==
    LET c == ZeroVec(num_pre_periods) \o l_vec
        a_sdrmb == SdrmbMatrixOf(
                    num_pre_periods, num_post_periods, m_bar, s, max_positive, bias_direction)
        b_sdrmb == _create_sdrmb_constraint_vector(a_sdrmb)
        a_eq == PrePeriodEquality(num_pre_periods, num_post_periods)
        b_eq == PreBlock(true_beta, num_pre_periods)
        l_beta_post == Dot(l_vec, PostBlock(true_beta, num_pre_periods))
        Result(result_max, result_min) ==
            [max_success |-> result_max.success, min_success |-> result_min.success] @@
            (IF result_max.success /\ result_min.success
             THEN [id_lb |-> RAdd(Rat(l_beta_post), result_max.fun[1]),
                   id_ub |-> RSub(Rat(l_beta_post), result_min.fun[1])]
             ELSE [id_lb |-> Rat(0), id_ub |-> Rat(0)])
        Solve(A, b) ==
            Bind(<<linprog(VNeg(c), A, b, a_eq, b_eq, None),
                   linprog(c, A, b, a_eq, b_eq, None)>>,
                 LAMBDA res : Result(res[1], res[2])
                                @@ [n_rows |-> Len(A), d_vec |-> b, bounds |-> None,
                                    lp_max |-> [c |-> VNeg(c), A_ub |-> A, b_ub |-> b,
                                                A_eq |-> a_eq, b_eq |-> b_eq, bounds |-> None],
                                    lp_min |-> [c |-> c, A_ub |-> A, b_ub |-> b,
                                                A_eq |-> a_eq, b_eq |-> b_eq, bounds |-> None]])
    IN  Bind(<<a_sdrmb, b_sdrmb>>, LAMBDA m : Solve(m[1], m[2]))

_compute_identified_set_sdrmb_fixed_s(s, m_bar, max_positive, true_beta, l_vec, num_pre_periods, num_post_periods, bias_direction) ==
    LET c == ZeroVec(num_pre_periods) \o l_vec
        a_sdrmb == SdrmbMatrixOf(
                    num_pre_periods, num_post_periods, m_bar, s, max_positive, bias_direction)
        b_sdrmb == _create_sdrmb_constraint_vector(a_sdrmb)
        a_eq == PrePeriodEquality(num_pre_periods, num_post_periods)
        b_eq == PreBlock(true_beta, num_pre_periods)
        l_beta_post == Dot(l_vec, PostBlock(true_beta, num_pre_periods))
        Result(result_max, result_min) ==
            [max_success |-> result_max.success, min_success |-> result_min.success] @@
            (IF result_max.success /\ result_min.success
             THEN [id_lb |-> RAdd(Rat(l_beta_post), result_max.fun[1]),
                   id_ub |-> RSub(Rat(l_beta_post), result_min.fun[1])]
             ELSE [id_lb |-> Rat(l_beta_post), id_ub |-> Rat(l_beta_post)])
        Solve(A, b) ==
            Bind(<<linprog(VNeg(c), A, b, a_eq, b_eq, None),
                   linprog(c, A, b, a_eq, b_eq, None)>>,
                 LAMBDA res : Result(res[1], res[2])
                                @@ [n_rows |-> Len(A), d_vec |-> b, bounds |-> None,
                                    lp_max |-> [c |-> VNeg(c), A_ub |-> A, b_ub |-> b,
                                                A_eq |-> a_eq, b_eq |-> b_eq, bounds |-> None],
                                    lp_min |-> [c |-> c, A_ub |-> A, b_ub |-> b,
                                                A_eq |-> a_eq, b_eq |-> b_eq, bounds |-> None]])
    IN  Bind(<<a_sdrmb, b_sdrmb>>, LAMBDA m : Solve(m[1], m[2]))

(* --------------------- identified-set aggregators --------------------- *)
\* the bounds of one configuration in the place of the minimum and the maximum
FirstLb(all_bounds) == all_bounds[1].id_lb
LastUb(all_bounds) == all_bounds[Len(all_bounds)].id_ub

\* min(b.id_lb for b in all_bounds), max(b.id_ub for b in all_bounds)
MinLb(all_bounds) == RMinSet({all_bounds[k].id_lb : k \in 1..Len(all_bounds)})
MaxUb(all_bounds) == RMaxSet({all_bounds[k].id_ub : k \in 1..Len(all_bounds)})

\* a loop whose second evaluation of each s repeats the (+) configuration
configs_positive_twice(s_values) ==
    [k \in 1..(2 * Len(s_values)) |->
        [s |-> s_values[(k + 1) \div 2], max_positive |-> TRUE]]

\* the (s, sign) configurations in evaluation order: s ascending, (+) before (-)
Configs(s_values) ==
    [k \in 1..(2 * Len(s_values)) |->
        [s |-> s_values[(k + 1) \div 2], max_positive |-> (k % 2 = 1)]]

\* an entry point that accepts a single pre-period
identified_set_rmm_one_pre_period(m_bar, true_beta, l_vec, num_pre_periods, num_post_periods, monotonicity_direction) ==
    IF num_pre_periods < 1
    THEN [error |-> "ValueError", id_lb |-> None, id_ub |-> None, all_bounds |-> <<>>,
          configs |-> <<>>, n_matrix |-> 0, n_linprog |-> 0]
    ELSE LET min_s == -(num_pre_periods - 1)
             s_values == PyRange(min_s, 1)
             configs == Configs(s_values)
             Result(all_bounds) ==
                 [error |-> NoError, id_lb |-> Some(MinLb(all_bounds)),
                  id_ub |-> Some(MaxUb(all_bounds)),
                  all_bounds |-> all_bounds, configs |-> configs,
                  n_matrix |-> Len(configs), n_linprog |-> 2 * Len(configs)]
         IN  Bind([k \in 1..Len(configs) |->
                     _compute_identified_set_rmm_fixed_s(
                         configs[k].s, m_bar, configs[k].max_positive, true_beta, l_vec,
                         num_pre_periods, num_post_periods, monotonicity_direction)],
                  Result)

\* result record of an identified-set entry point: the error raised (NoError when it
\* returned), the bounds, the per-configuration bounds and the work done
compute_identified_set_rmm(m_bar, true_beta, l_vec, num_pre_periods, num_post_periods, monotonicity_direction) ==
    IF num_pre_periods < 2
    THEN [error |-> "ValueError", id_lb |-> None, id_ub |-> None, all_bounds |-> <<>>,
          configs |-> <<>>, n_matrix |-> 0, n_linprog |-> 0]
    ELSE LET min_s == -(num_pre_periods - 1)
             s_values == PyRange(min_s, 1)
             configs == Configs(s_values)
             Result(all_bounds) ==
                 [error |-> NoError, id_lb |-> Some(MinLb(all_bounds)),
                  id_ub |-> Some(MaxUb(all_bounds)),
                  all_bounds |-> all_bounds, configs |-> configs,
                  n_matrix |-> Len(configs), n_linprog |-> 2 * Len(configs)]
         IN  Bind([k \in 1..Len(configs) |->
                     _compute_identified_set_rmm_fixed_s(
                         configs[k].s, m_bar, configs[k].max_positive, true_beta, l_vec,
                         num_pre_periods, num_post_periods, monotonicity_direction)],
                  Result)

compute_identified_set_sdrmb(m_bar, true_beta, l_vec, num_pre_periods, num_post_periods, bias_direction) ==
    LET min_s == -(num_pre_periods - 2)
        s_values == PyRange(min_s, 0)
        configs == Configs(s_values)
        Result(all_bounds) ==
            IF all_bounds = <<>>
            \* min() of an empty sequence
            THEN [error |-> "ValueError", id_lb |-> None, id_ub |-> None, all_bounds |-> <<>>,
                  configs |-> <<>>, n_matrix |-> 0, n_linprog |-> 0]
            ELSE [error |-> NoError, id_lb |-> Some(MinLb(all_bounds)),
                  id_ub |-> Some(MaxUb(all_bounds)),
                  all_bounds |-> all_bounds, configs |-> configs,
                  n_matrix |-> Len(configs), n_linprog |-> 2 * Len(configs)]
    IN  Bind([k \in 1..Len(configs) |->
                _compute_identified_set_sdrmb_fixed_s(
                    configs[k].s, m_bar, configs[k].max_positive, true_beta, l_vec,
                    num_pre_periods, num_post_periods, bias_direction)],
             Result)

\* the identified set of every input within the bounds, computed once; a call of the
\* entry point is a look-up of its result
IdentifiedSetInputs(directions) ==
    UNION {{<<m, b, l, np[1], np[2], d>> : m \in MBars, b \in Betas(np[1], np[2]), l \in LVecs(np[2]), d \in directions} : np \in PreCounts \X PostCounts}
IdentifiedSetsRmm ==
    [k \in IdentifiedSetInputs({"increasing", "decreasing"}) |-> compute_identified_set_rmm(k[1], k[2], k[3], k[4], k[5], k[6])]
IdentifiedSetsSdrmb ==
    [k \in IdentifiedSetInputs({"positive", "negative"}) |-> compute_identified_set_sdrmb(k[1], k[2], k[3], k[4], k[5], k[6])]
IdentifiedSetRmmOf(m_bar, true_beta, l_vec, num_pre_periods, num_post_periods, monotonicity_direction) ==
    IdentifiedSetsRmm[<<m_bar, true_beta, l_vec, num_pre_periods, num_post_periods, monotonicity_direction>>]
IdentifiedSetSdrmbOf(m_bar, true_beta, l_vec, num_pre_periods, num_post_periods, bias_direction) ==
    IdentifiedSetsSdrmb[<<m_bar, true_beta, l_vec, num_pre_periods, num_post_periods, bias_direction>>]

(* ------------------------------- oracles ------------------------------ *)
(* The ARP oracles and the least-favorable critical value are external.    *)
(* An oracle is a deterministic function of its arguments; which function  *)
(* is not known, so it is drawn from the family indexed by w: the point i  *)
(* of the grid is accepted when bit (Digest(a_matrix) + i) mod WorldBits   *)
(* of w is set.                                                            *)
\* a grid that stops one step short of grid_ub
linspace_without_endpoint(grid_lb, grid_ub, grid_points) ==
    [i \in 1..grid_points |->
        RAdd(grid_lb, RDivInt(RScale(i - 1, RSub(grid_ub, grid_lb)), grid_points))]

\* np.linspace(grid_lb, grid_ub, grid_points)
linspace(grid_lb, grid_ub, grid_points) ==
    [i \in 1..grid_points |->
        RAdd(grid_lb, RDivInt(RScale(i - 1, RSub(grid_ub, grid_lb)), grid_points - 1))]

Digest(a_matrix) ==
    SumSeq([r \in 1..Len(a_matrix) |->
              SumSeq([c \in 1..Len(a_matrix[r]) |-> Abs(a_matrix[r][c]) * (r + c)])])

OracleAccept(w, a_matrix, grid_points) ==
    Bind(Digest(a_matrix),
         LAMBDA h : [i \in 1..grid_points |-> (w \div (2 ^ ((h + i) % WorldBits))) % 2])

\* the critical value is kept as the term naming what it was computed from
_compute_least_favorable_cv(a_matrix, sigma, hybrid_kappa, seed) ==
    [projected |-> a_matrix, sigma |-> sigma, hybrid_kappa |-> hybrid_kappa, seed |-> seed]

\* result.accept_grid[:, 0], result.accept_grid[:, 1] and the record of the call
compute_arp_nuisance_ci(w, a_matrix, d_vec, hybrid_flag, hybrid_list, grid_lb, grid_ub, grid_points, rows_for_arp) ==
    [grid |-> linspace(grid_lb, grid_ub, grid_points),
     accept |-> OracleAccept(w, a_matrix, grid_points),
     call |-> [oracle |-> "compute_arp_nuisance_ci", a_matrix |-> a_matrix, d_vec |-> d_vec,
               hybrid_flag |-> hybrid_flag, hybrid_kappa |-> hybrid_list.hybrid_kappa,
               lf_cv |-> hybrid_list.lf_cv, grid_lb |-> grid_lb, grid_ub |-> grid_ub,
               grid_points |-> grid_points, rows_for_arp |-> rows_for_arp]]

\* result.theta_grid, result.accept_grid and the record of the call
compute_arp_ci(w, A, d, hybrid_flag, hybrid_kappa, lf_cv, grid_lb, grid_ub, grid_points) ==
    [grid |-> linspace(grid_lb, grid_ub, grid_points),
     accept |-> OracleAccept(w, A, grid_points),
     call |-> [oracle |-> "compute_arp_ci", a_matrix |-> A, d_vec |-> d,
               hybrid_flag |-> hybrid_flag, hybrid_kappa |-> hybrid_kappa,
               lf_cv |-> lf_cv, grid_lb |-> grid_lb, grid_ub |-> grid_ub,
               grid_points |-> grid_points, rows_for_arp |-> None]]

(* ------------------ per-configuration confidence sets ----------------- *)
\* l' sigma[num_pre_periods:, num_pre_periods:] l
QuadPost(l_vec, sigma, num_pre_periods) ==
    SumSeq([i \in 1..Len(l_vec) |->
              SumSeq([j \in 1..Len(l_vec) |->
                        l_vec[i] * sigma[num_pre_periods + i][num_pre_periods + j] * l_vec[j]])])
\* np.sqrt of it
SdTheta(l_vec, sigma, num_pre_periods) == ISqrt(QuadPost(l_vec, sigma, num_pre_periods))

\* alpha / 10 (alpha is held in thousandths)
DefaultKappa(alpha) == alpha \div 10

\* what a per-configuration evaluation that stopped at the flag check reports
FlagError(s, max_positive, grid_lb, grid_ub, grid_points) ==
    [error |-> "ValueError", s |-> s, max_positive |-> max_positive,
     grid_lb |-> grid_lb, grid_ub |-> grid_ub, grid_points |-> grid_points,
     grid |-> None, accept |-> None, calls |-> <<>>, n_lf |-> 0,
     n_matrix |-> 0, n_linprog |-> 0, n_derive |-> 0]

_compute_conditional_cs_rmm_fixed_s(w, s, max_positive, m_bar, betahat, sigma, num_pre_periods, num_post_periods, l_vec, alpha, hybrid_flag, hybrid_kappa, monotonicity_direction, post_period_moments_only, grid_points, grid_lb, grid_ub, seed) ==
    IF hybrid_flag \notin {"LF", "ARP"}
    THEN FlagError(s, max_positive, grid_lb, grid_ub, grid_points)
    ELSE
    LET kappa == IF hybrid_kappa = None THEN DefaultKappa(alpha) ELSE hybrid_kappa[1]
        multi == post_period_moments_only /\ num_post_periods > 1
        Rows(A0) ==
            LET d0 == _create_relative_magnitudes_monotonicity_constraint_vector(A0)
                post_period_rows == [r \in 1..Len(A0) |-> A0[r][Len(A0[r])] # 0]
                filter == ~multi /\ num_post_periods = 1
                          /\ (\E r \in 1..Len(A0) : post_period_rows[r])
            IN  [A_rmm |-> IF filter THEN FilterRows(A0, post_period_rows) ELSE A0,
                 d_rmm |-> IF filter THEN FilterRows(d0, post_period_rows) ELSE d0,
                 rows_for_arp |->
                    IF multi
                    THEN Some(find_rows_with_post_period_values(
                                A0, (num_pre_periods + 1)..(num_pre_periods + num_post_periods)))
                    ELSE None]
        derive == grid_lb = None \/ grid_ub = None
        sd_theta == SdTheta(l_vec, sigma, num_pre_periods)
        lf == num_post_periods = 1 /\ hybrid_flag = "LF"
        hybrid_list(A_rmm) ==
            [hybrid_kappa |-> kappa,
             lf_cv |-> IF lf THEN Some(_compute_least_favorable_cv(A_rmm, sigma, kappa, seed))
                       ELSE None]
        Result(result) ==
            [error |-> NoError, s |-> s, max_positive |-> max_positive,
             grid_lb |-> grid_lb, grid_ub |-> grid_ub, grid_points |-> grid_points,
             grid |-> result.grid, accept |-> result.accept, calls |-> <<result.call>>,
             n_lf |-> IF lf THEN 1 ELSE 0,
             n_matrix |-> IF derive THEN 2 ELSE 1, n_linprog |-> IF derive THEN 2 ELSE 0,
             n_derive |-> IF derive THEN 1 ELSE 0]
        Test(m, id_sets) ==
            LET lb == IF grid_lb = None THEN RSub(id_sets[1].id_lb, Rat(20 * sd_theta))
                      ELSE grid_lb[1]
                ub == IF grid_ub = None THEN RAdd(id_sets[1].id_ub, Rat(20 * sd_theta))
                      ELSE grid_ub[1]
            IN  Bind(compute_arp_nuisance_ci(
                         w, m.A_rmm, m.d_rmm, hybrid_flag, hybrid_list(m.A_rmm), lb, ub,
                         grid_points, IF num_post_periods = 1 THEN None ELSE m.rows_for_arp),
                     Result)
        Grid(m) ==
            Bind(IF derive
                 THEN <<_compute_identified_set_rmm_fixed_s(
                            s, m_bar, max_positive, betahat, l_vec, num_pre_periods,
                            num_post_periods, monotonicity_direction)>>
                 ELSE <<>>,
                 LAMBDA id_sets : Test(m, id_sets))
    IN  Bind(RmmMatrixOf(
                 num_pre_periods, num_post_periods, m_bar, s, max_positive,
                 monotonicity_direction),
             LAMBDA A0 : Bind(Rows(A0), Grid))

_compute_cs_sdrmb_no_nuisance(w, sigma, a_sdrmb, d_sdrmb, hybrid_flag, hybrid_kappa, grid_lb, grid_ub, grid_points, seed) ==
    LET lf == hybrid_flag = "LF"
        lf_cv == _compute_least_favorable_cv(a_sdrmb, sigma, hybrid_kappa, seed)
    IN  Bind(compute_arp_ci(w, a_sdrmb, d_sdrmb, hybrid_flag, hybrid_kappa,
                            IF lf THEN Some(lf_cv) ELSE None, grid_lb, grid_ub, grid_points),
             LAMBDA result :
                 [grid |-> result.grid, accept |-> result.accept, calls |-> <<result.call>>,
                  n_lf |-> IF lf THEN 1 ELSE 0])

_compute_conditional_cs_sdrmb_fixed_s(w, s, max_positive, m_bar, betahat, sigma, num_pre_periods, num_post_periods, l_vec, alpha, hybrid_flag, hybrid_kappa, post_period_moments_only, bias_direction, grid_points, grid_lb, grid_ub, seed) ==
    LET d_sdrmb(a_sdrmb) == _create_sdrmb_constraint_vector(a_sdrmb)
        rows_for_arp(a_sdrmb) ==
            IF post_period_moments_only /\ num_post_periods > 1
            THEN Some(find_rows_with_post_period_values(
                        a_sdrmb, (num_pre_periods + 1)..Len(a_sdrmb[1])))
            ELSE None
        hybrid_list == [hybrid_kappa |-> hybrid_kappa, lf_cv |-> None]
        Trace(grid, accept, calls, n_lf) ==
            [error |-> NoError, s |-> s, max_positive |-> max_positive,
             grid_lb |-> grid_lb, grid_ub |-> grid_ub, grid_points |-> grid_points,
             grid |-> grid, accept |-> accept, calls |-> calls, n_lf |-> n_lf,
             n_matrix |-> 1, n_linprog |-> 0, n_derive |-> 0]
        Test(a_sdrmb) ==
            IF num_post_periods = 1
            THEN Bind(_compute_cs_sdrmb_no_nuisance(
                          w, sigma, a_sdrmb, d_sdrmb(a_sdrmb), hybrid_flag, hybrid_kappa,
                          grid_lb[1], grid_ub[1], grid_points, seed),
                      LAMBDA single :
                          Trace(single.grid, single.accept, single.calls, single.n_lf))
            ELSE Bind(compute_arp_nuisance_ci(
                          w, a_sdrmb, d_sdrmb(a_sdrmb), hybrid_flag, hybrid_list, grid_lb[1],
                          grid_ub[1], grid_points, rows_for_arp(a_sdrmb)),
                      LAMBDA result : Trace(result.grid, result.accept, <<result.call>>, 0))
    IN  Bind(SdrmbMatrixOf(
                 num_pre_periods, num_post_periods, m_bar, s, max_positive, bias_direction),
             Test)

(* --------------------- confidence-set aggregators --------------------- *)
\* the evaluations made before the loop ended: all of them, or those up to and
\* including the first that raised
UpToFirstError(evals_all) ==
    LET Cut(all) ==
            LET bad == {k \in 1..Len(all) : all[k].error # NoError}
            IN  IF bad = {} THEN all
                ELSE SubSeq(all, 1, CHOOSE k \in bad : \A j \in bad : k <= j)
    IN  Bind(evals_all, Cut)

SumField(evals, f) == SumSeq([k \in 1..Len(evals) |-> evals[k][f]])
FirstError(evals) ==
    IF \E k \in 1..Len(evals) : evals[k].error # NoError THEN "ValueError" ELSE NoError

\* np.all in the place of np.any
AllAxis1(all_accepts, grid_points) ==
    [i \in 1..grid_points |->
        IF \A c \in 1..Len(all_accepts) : all_accepts[c][i] # 0 THEN 1 ELSE 0]

\* a reduction that reports the column written last
last_column_axis1(all_accepts, grid_points) ==
    [i \in 1..grid_points |-> IF all_accepts[Len(all_accepts)][i] # 0 THEN 1 ELSE 0]

\* np.any(all_accepts, axis=1).astype(float); all_accepts is held column by column
AnyAxis1(all_accepts, grid_points) ==
    [i \in 1..grid_points |->
        IF \E c \in 1..Len(all_accepts) : all_accepts[c][i] # 0 THEN 1 ELSE 0]

\* np.max(all_cs, axis=1) of a matrix with at least one column
MaxAxis1(all_cs, grid_points) ==
    [i \in 1..grid_points |->
        CHOOSE m \in {all_cs[c][i] : c \in 1..Len(all_cs)} :
            \A c \in 1..Len(all_cs) : all_cs[c][i] <= m]
\* np.maximum
Maximum(u, v) == [i \in 1..Len(u) |-> Max(u[i], v[i])]

\* a length that gives every accepted point but the last the whole step to its right
grid_length_by_rectangles(grid, accept) ==
    LET RECURSIVE S(_)
        S(i) == IF i = 0 THEN Rat(0)
                ELSE RAdd(S(i - 1), RScale(accept[i], RSub(grid[i + 1], grid[i])))
    IN  S(Len(grid) - 1)

\* np.sum(accept * grid_length) with the trapezoid weights of lines 237-238
GridLength(grid, accept) ==
    LET n == Len(grid)
        half(i) == IF i < 1 \/ i >= n THEN Rat(0) ELSE RDivInt(RSub(grid[i + 1], grid[i]), 2)
        RECURSIVE S(_)
        S(i) == IF i = 0 THEN Rat(0)
                ELSE RAdd(S(i - 1), RScale(accept[i], RAdd(half(i - 1), half(i))))
    IN  S(n)

\* what an aggregator that raised before its loop reports
CsError(grid_lb, grid_ub, id_sets, n_matrix, n_linprog) ==
    [error |-> "ValueError", value |-> None, grid |-> None, accept |-> None,
     grid_lb |-> grid_lb, grid_ub |-> grid_ub, evals |-> <<>>, id_sets |-> id_sets,
     n_derive |-> Len(id_sets), n_matrix |-> n_matrix, n_linprog |-> n_linprog,
     n_oracle |-> 0, n_lf |-> 0]

\* an aggregator that hands the caller's grid_lb and grid_ub on as they came
conditional_cs_rmm_bounds_not_passed(w, betahat, sigma, num_pre_periods, num_post_periods, l_vec, m_bar, alpha, hybrid_flag, hybrid_kappa, return_length, monotonicity_direction, post_period_moments_only, grid_points, grid_lb, grid_ub, seed) ==
    IF num_pre_periods < 2 THEN CsError(grid_lb, grid_ub, <<>>, 0, 0)
    ELSE
    LET l == IF l_vec = None THEN basis_vector(1, num_post_periods) ELSE l_vec[1]
        kappa == IF hybrid_kappa = None THEN DefaultKappa(alpha) ELSE hybrid_kappa[1]
        derive == grid_lb = None \/ grid_ub = None
        sd_theta == SdTheta(l, sigma, num_pre_periods)
        min_s == -(num_pre_periods - 1)
        s_values == PyRange(min_s, 1)
        configs == Configs(s_values)
        Result(id_sets, lb, ub, evals) ==
            LET trace == [grid_lb |-> Some(lb), grid_ub |-> Some(ub), evals |-> evals,
                          id_sets |-> id_sets,
                          n_derive |-> Len(id_sets) + SumField(evals, "n_derive"),
                          n_matrix |-> SumField(id_sets, "n_matrix") + SumField(evals, "n_matrix"),
                          n_linprog |-> SumField(id_sets, "n_linprog")
                                          + SumField(evals, "n_linprog"),
                          n_oracle |-> SumSeq([k \in 1..Len(evals) |-> Len(evals[k].calls)]),
                          n_lf |-> SumField(evals, "n_lf")]
                Return(grid, accept) ==
                    [error |-> NoError,
                     value |-> IF return_length THEN [length |-> GridLength(grid, accept)]
                               ELSE [grid |-> grid, accept |-> accept],
                     grid |-> Some(grid), accept |-> Some(accept)] @@ trace
            IN  IF FirstError(evals) # NoError
                THEN [error |-> "ValueError", value |-> None, grid |-> None,
                      accept |-> None] @@ trace
                ELSE Bind(<<linspace(lb, ub, grid_points),
                            Bind([k \in 1..Len(evals) |-> evals[k].accept],
                                 LAMBDA all_accepts : AnyAxis1(all_accepts, grid_points))>>,
                          LAMBDA ga : Return(ga[1], ga[2]))
        Loop(id_sets, lb, ub) ==
            Bind(UpToFirstError(
                     [k \in 1..Len(configs) |->
                        _compute_conditional_cs_rmm_fixed_s(
                            w, configs[k].s, configs[k].max_positive, m_bar, betahat, sigma,
                            num_pre_periods, num_post_periods, l, alpha, hybrid_flag, Some(kappa),
                            monotonicity_direction, post_period_moments_only, grid_points,
                            grid_lb, grid_ub, seed)]),
                 LAMBDA evals : Result(id_sets, lb, ub, evals))
        Grid(id_sets) ==
            Bind(<<IF grid_lb = None THEN RSub(id_sets[1].id_lb[1], Rat(20 * sd_theta))
                   ELSE grid_lb[1],
                   IF grid_ub = None THEN RAdd(id_sets[1].id_ub[1], Rat(20 * sd_theta))
                   ELSE grid_ub[1]>>,
                 LAMBDA b : Loop(id_sets, b[1], b[2]))
    IN  Bind(IF derive
             THEN <<IdentifiedSetRmmOf(
                        m_bar, betahat, l, num_pre_periods, num_post_periods,
                        monotonicity_direction)>>
             ELSE <<>>,
             Grid)

compute_conditional_cs_rmm(w, betahat, sigma, num_pre_periods, num_post_periods, l_vec, m_bar, alpha, hybrid_flag, hybrid_kappa, return_length, monotonicity_direction, post_period_moments_only, grid_points, grid_lb, grid_ub, seed) ==
    IF num_pre_periods < 2 THEN CsError(grid_lb, grid_ub, <<>>, 0, 0)
    ELSE
    LET l == IF l_vec = None THEN basis_vector(1, num_post_periods) ELSE l_vec[1]
        kappa == IF hybrid_kappa = None THEN DefaultKappa(alpha) ELSE hybrid_kappa[1]
        derive == grid_lb = None \/ grid_ub = None
        sd_theta == SdTheta(l, sigma, num_pre_periods)
        min_s == -(num_pre_periods - 1)
        s_values == PyRange(min_s, 1)
        configs == Configs(s_values)
        Result(id_sets, lb, ub, evals) ==
            LET trace == [grid_lb |-> Some(lb), grid_ub |-> Some(ub), evals |-> evals,
                          id_sets |-> id_sets,
                          n_derive |-> Len(id_sets) + SumField(evals, "n_derive"),
                          n_matrix |-> SumField(id_sets, "n_matrix") + SumField(evals, "n_matrix"),
                          n_linprog |-> SumField(id_sets, "n_linprog")
                                          + SumField(evals, "n_linprog"),
                          n_oracle |-> SumSeq([k \in 1..Len(evals) |-> Len(evals[k].calls)]),
                          n_lf |-> SumField(evals, "n_lf")]
                Return(grid, accept) ==
                    [error |-> NoError,
                     value |-> IF return_length THEN [length |-> GridLength(grid, accept)]
                               ELSE [grid |-> grid, accept |-> accept],
                     grid |-> Some(grid), accept |-> Some(accept)] @@ trace
            IN  IF FirstError(evals) # NoError
                THEN [error |-> "ValueError", value |-> None, grid |-> None,
                      accept |-> None] @@ trace
                ELSE Bind(<<linspace(lb, ub, grid_points),
                            Bind([k \in 1..Len(evals) |-> evals[k].accept],
                                 LAMBDA all_accepts : AnyAxis1(all_accepts, grid_points))>>,
                          LAMBDA ga : Return(ga[1], ga[2]))
        Loop(id_sets, lb, ub) ==
            Bind(UpToFirstError(
                     [k \in 1..Len(configs) |->
                        _compute_conditional_cs_rmm_fixed_s(
                            w, configs[k].s, configs[k].max_positive, m_bar, betahat, sigma,
                            num_pre_periods, num_post_periods, l, alpha, hybrid_flag, Some(kappa),
                            monotonicity_direction, post_period_moments_only, grid_points,
                            Some(lb), Some(ub), seed)]),
                 LAMBDA evals : Result(id_sets, lb, ub, evals))
        Grid(id_sets) ==
            Bind(<<IF grid_lb = None THEN RSub(id_sets[1].id_lb[1], Rat(20 * sd_theta))
                   ELSE grid_lb[1],
                   IF grid_ub = None THEN RAdd(id_sets[1].id_ub[1], Rat(20 * sd_theta))
                   ELSE grid_ub[1]>>,
                 LAMBDA b : Loop(id_sets, b[1], b[2]))
    IN  Bind(IF derive
             THEN <<IdentifiedSetRmmOf(
                        m_bar, betahat, l, num_pre_periods, num_post_periods,
                        monotonicity_direction)>>
             ELSE <<>>,
             Grid)

compute_conditional_cs_sdrmb(w, betahat, sigma, num_pre_periods, num_post_periods, l_vec, m_bar, alpha, hybrid_flag, hybrid_kappa, post_period_moments_only, bias_direction, grid_points, grid_lb, grid_ub, seed) ==
    IF num_pre_periods = 1 THEN CsError(grid_lb, grid_ub, <<>>, 0, 0)
    ELSE IF hybrid_flag \notin {"LF", "ARP"} THEN CsError(grid_lb, grid_ub, <<>>, 0, 0)
    ELSE
    LET l == IF l_vec = None THEN basis_vector(1, num_post_periods) ELSE l_vec[1]
        kappa == IF hybrid_kappa = None THEN DefaultKappa(alpha) ELSE hybrid_kappa[1]
        sd_theta == SdTheta(l, sigma, num_pre_periods)
        lb == IF grid_lb = None THEN Some(Rat(-20 * sd_theta)) ELSE grid_lb
        ub == IF grid_ub = None THEN Some(Rat(20 * sd_theta)) ELSE grid_ub
        min_s == -(num_pre_periods - 2)
        s_values == PyRange(min_s, 0)
        grid == linspace(lb[1], ub[1], grid_points)
        n_s == Len(s_values)
        configs == Configs(s_values)
        Return(evals, accept) ==
            [error |-> NoError, value |-> [grid |-> grid, accept |-> accept],
             grid |-> Some(grid), accept |-> Some(accept),
             grid_lb |-> lb, grid_ub |-> ub, evals |-> evals, id_sets |-> <<>>,
             n_derive |-> 0, n_matrix |-> SumField(evals, "n_matrix"),
             n_linprog |-> SumField(evals, "n_linprog"),
             n_oracle |-> SumSeq([k \in 1..Len(evals) |-> Len(evals[k].calls)]),
             n_lf |-> SumField(evals, "n_lf")]
        Result(evals) ==
            LET all_cs_pos == [i \in 1..n_s |-> evals[2 * i - 1].accept]
                all_cs_neg == [i \in 1..n_s |-> evals[2 * i].accept]
                Union(pos, neg) ==
                    Bind(<<MaxAxis1(pos, grid_points), MaxAxis1(neg, grid_points)>>,
                         LAMBDA a : Maximum(a[1], a[2]))
            IN  IF n_s = 0
                \* np.max over an axis of length zero
                THEN CsError(lb, ub, <<>>, 0, 0)
                ELSE Bind(Bind(<<all_cs_pos, all_cs_neg>>, LAMBDA m : Union(m[1], m[2])),
                          LAMBDA accept : Return(evals, accept))
    IN  Bind([k \in 1..Len(configs) |->
                _compute_conditional_cs_sdrmb_fixed_s(
                    w, configs[k].s, configs[k].max_positive, m_bar, betahat, sigma,
                    num_pre_periods, num_post_periods, l, alpha, hybrid_flag, kappa,
                    post_period_moments_only, bias_direction, grid_points, lb, ub, seed)],
             Result)

(* --------------------- WLS condition-number check --------------------- *)
(* pydid/drdid/utils.py.  A condition number is held as <<m, e>>, the      *)
(* float m * 10^e with m in 1..9; a results object is None when it has no  *)
(* condition_number attribute and Some(<<m, e>>) when it has one.          *)
\* a > b for two floats m * 10^e
SciGreater(a, b) == a[2] > b[2] \/ (a[2] = b[2] /\ a[1] > b[1])

\* threshold_error: float = 1e15, threshold_warn: float = 1e10
DefaultThresholdError == <<1, 15>>
DefaultThresholdWarn == <<1, 10>>

\* a handler that catches every exception
except_exception(outcome) ==
    IF outcome.error # NoError
    THEN [error |-> NoError, warnings |-> outcome.warnings]
    ELSE outcome

\* except AttributeError: pass
ExceptAttributeError(outcome) ==
    IF outcome.error = "AttributeError"
    THEN [error |-> NoError, warnings |-> outcome.warnings]
    ELSE outcome

\* the exception that leaves the function (NoError when it returns) and the
\* warnings it emitted
_check_wls_condition_number(results, threshold_error, threshold_warn) ==
    LET Body(condition_number) ==
            IF SciGreater(condition_number, threshold_error)
            THEN [error |-> "ValueError", warnings |-> <<>>]
            ELSE IF SciGreater(condition_number, threshold_warn)
            THEN [error |-> NoError, warnings |-> <<"UserWarning">>]
            ELSE [error |-> NoError, warnings |-> <<>>]
    IN  ExceptAttributeError(
            IF results = None
            THEN [error |-> "AttributeError", warnings |-> <<>>]
            ELSE Body(results[1]))

(* ------------------------------- state -------------------------------- *)
VARIABLES
    fn,      \* the entry point of the call made last ("idle" before any call)
    args,    \* the arguments the caller passed to it
    ret,     \* what the call did: the error raised or the value returned, and its trace
    world,   \* which member of the oracle family the ARP oracles are
    prev     \* <<[fn, args, ret]>> of the call before, <<>> when there was none

vars == <<fn, args, ret, world, prev>>

Worlds == 0..(2 ^ WorldBits - 1)

IdSetFns == {"compute_identified_set_rmm", "compute_identified_set_sdrmb"}

\* the objects a call stores into by subscript assignment, each allocated by the call
\* itself: the identified-set functions have no such statement; the confidence-set
\* functions fill their accept matrices and their hybrid_list / kwargs dicts
IdentifiedSetStores == {}
\* a confidence-set call that also writes the default into the caller's l_vec
conditional_cs_rmm_stores_into_l_vec == {"all_accepts", "hybrid_list", "l_vec"}
ConditionalCsRmmStores == {"all_accepts", "hybrid_list"}
ConditionalCsSdrmbStores == {"all_cs_pos", "all_cs_neg", "kwargs"}
\* the caller's arrays as a call leaves them: one the call stored into no longer
\* holds what the caller put there; every other statement reads them or rebinds a
\* local name to a fresh array (flatten, np.asarray(...).flatten(), A[rows])
AfterCall(arrays, stores) ==
    [name \in DOMAIN arrays |-> IF name \in stores THEN <<>> ELSE arrays[name]]

\* dispatch of an identified-set entry point on its argument record
RunIdentifiedSet(f, a) ==
    (IF f = "compute_identified_set_rmm"
     THEN IdentifiedSetRmmOf(a.m_bar, a.true_beta, a.l_vec, a.num_pre_periods,
                             a.num_post_periods, a.monotonicity_direction)
     ELSE IdentifiedSetSdrmbOf(a.m_bar, a.true_beta, a.l_vec, a.num_pre_periods,
                               a.num_post_periods, a.bias_direction))
    @@ [caller |-> AfterCall([true_beta |-> a.true_beta, l_vec |-> a.l_vec],
                             IdentifiedSetStores)]

Init ==
    /\ fn = "idle"
    /\ args = None
    /\ ret = None
    /\ world = 0
    /\ prev = None

\* a caller invokes compute_identified_set_rmm
CallIdentifiedSetRmm ==
    /\ fn = "idle"
    /\ \E num_pre_periods \in PreCounts, num_post_periods \in PostCounts, m_bar \in MBars,
          monotonicity_direction \in {"increasing", "decreasing"} :
        \E true_beta \in Betas(num_pre_periods, num_post_periods), l_vec \in LVecs(num_post_periods) :
            LET a == [m_bar |-> m_bar, true_beta |-> true_beta, l_vec |-> l_vec,
                      num_pre_periods |-> num_pre_periods, num_post_periods |-> num_post_periods,
                      monotonicity_direction |-> monotonicity_direction]
            IN  /\ fn' = "compute_identified_set_rmm"
                /\ args' = a
                /\ ret' = RunIdentifiedSet("compute_identified_set_rmm", a)
    /\ UNCHANGED <<world, prev>>

\* a caller invokes compute_identified_set_sdrmb
CallIdentifiedSetSdrmb ==
    /\ fn = "idle"
    /\ \E num_pre_periods \in PreCounts, num_post_periods \in PostCounts, m_bar \in MBars,
          bias_direction \in {"positive", "negative"} :
        \E true_beta \in Betas(num_pre_periods, num_post_periods), l_vec \in LVecs(num_post_periods) :
            LET a == [m_bar |-> m_bar, true_beta |-> true_beta, l_vec |-> l_vec,
                      num_pre_periods |-> num_pre_periods, num_post_periods |-> num_post_periods,
                      bias_direction |-> bias_direction]
            IN  /\ fn' = "compute_identified_set_sdrmb"
                /\ args' = a
                /\ ret' = RunIdentifiedSet("compute_identified_set_sdrmb", a)
    /\ UNCHANGED <<world, prev>>

\* the caller repeats an identified-set call with a larger m_bar, all else equal
RecallLargerMBar ==
    /\ fn \in IdSetFns
    /\ prev = None
    /\ \E m2 \in MBars :
        /\ m2 > args.m_bar
        /\ args' = [args EXCEPT !.m_bar = m2]
        /\ ret' = RunIdentifiedSet(fn, args')
    /\ prev' = <<[fn |-> fn, args |-> args, ret |-> ret]>>
    /\ UNCHANGED <<fn, world>>

\* the inputs of the confidence-set entry points: a flat pre-trend, sigma a multiple
\* of the identity, and the optional l_vec, hybrid_kappa and seed either all left
\* to their defaults or all given
CsBetas(num_pre_periods, num_post_periods) ==
    {[i \in 1..(num_pre_periods + num_post_periods) |->
        IF i <= num_pre_periods THEN c ELSE IF i = num_pre_periods + 1 THEN -1 ELSE 2] :
     c \in PreBetas \ {1}}
Sigmas(n) == {[i \in 1..n |-> [j \in 1..n |-> IF i = j THEN v ELSE 0]] : v \in Variances}
GivenLVec(num_post_periods) == IF num_post_periods = 1 THEN <<-2>> ELSE <<0, 1>>
HybridFlags == {"LF", "ARP", "FLCI"}
GridBounds == {<<None, None>>, <<Some(Rat(-3)), None>>, <<None, Some(Rat(5))>>,
               <<Some(Rat(-3)), Some(Rat(5))>>}
CsMBars == {0, MaxMBar}
Alphas == {50}

\* a caller invokes compute_conditional_cs_rmm
CallConditionalCsRmm ==
    /\ fn = "idle"
    /\ \E num_pre_periods \in PreCounts, num_post_periods \in PostCounts, m_bar \in CsMBars,
          hybrid_flag \in HybridFlags, gb \in GridBounds, grid_points \in GridCounts,
          post_period_moments_only \in BOOLEAN, return_length \in BOOLEAN,
          given \in BOOLEAN, alpha \in Alphas, w \in Worlds :
        \E betahat \in CsBetas(num_pre_periods, num_post_periods),
           sigma \in Sigmas(num_pre_periods + num_post_periods) :
            LET a == [betahat |-> betahat, sigma |-> sigma,
                      num_pre_periods |-> num_pre_periods, num_post_periods |-> num_post_periods,
                      l_vec |-> IF given THEN Some(GivenLVec(num_post_periods)) ELSE None,
                      m_bar |-> m_bar, alpha |-> alpha, hybrid_flag |-> hybrid_flag,
                      hybrid_kappa |-> IF given THEN Some(20) ELSE None,
                      return_length |-> return_length,
                      monotonicity_direction |-> "increasing",
                      post_period_moments_only |-> post_period_moments_only,
                      grid_points |-> grid_points, grid_lb |-> gb[1], grid_ub |-> gb[2],
                      seed |-> IF given THEN Some(7) ELSE None]
            IN  /\ fn' = "compute_conditional_cs_rmm"
                /\ args' = a
                /\ world' = w
                /\ ret' = compute_conditional_cs_rmm(
                              w, a.betahat, a.sigma, a.num_pre_periods, a.num_post_periods,
                              a.l_vec, a.m_bar, a.alpha, a.hybrid_flag, a.hybrid_kappa,
                              a.return_length, a.monotonicity_direction,
                              a.post_period_moments_only, a.grid_points, a.grid_lb, a.grid_ub,
                              a.seed)
                          @@ [caller |-> AfterCall([betahat |-> a.betahat, sigma |-> a.sigma,
                                                    l_vec |-> a.l_vec],
                                                   ConditionalCsRmmStores)]
    /\ UNCHANGED prev

\* a caller invokes compute_conditional_cs_sdrmb
CallConditionalCsSdrmb ==
    /\ fn = "idle"
    /\ \E num_pre_periods \in PreCounts, num_post_periods \in PostCounts, m_bar \in CsMBars,
          hybrid_flag \in HybridFlags, gb \in GridBounds, grid_points \in GridCounts,
          post_period_moments_only \in BOOLEAN,
          given \in BOOLEAN, alpha \in Alphas, w \in Worlds :
        \E betahat \in CsBetas(num_pre_periods, num_post_periods),
           sigma \in Sigmas(num_pre_periods + num_post_periods) :
            LET a == [betahat |-> betahat, sigma |-> sigma,
                      num_pre_periods |-> num_pre_periods, num_post_periods |-> num_post_periods,
                      l_vec |-> IF given THEN Some(GivenLVec(num_post_periods)) ELSE None,
                      m_bar |-> m_bar, alpha |-> alpha, hybrid_flag |-> hybrid_flag,
                      hybrid_kappa |-> IF given THEN Some(20) ELSE None,
                      post_period_moments_only |-> post_period_moments_only,
                      bias_direction |-> "positive",
                      grid_points |-> grid_points, grid_lb |-> gb[1], grid_ub |-> gb[2],
                      seed |-> IF given THEN Some(7) ELSE Some(0)]
            IN  /\ fn' = "compute_conditional_cs_sdrmb"
                /\ args' = a
                /\ world' = w
                /\ ret' = compute_conditional_cs_sdrmb(
                              w, a.betahat, a.sigma, a.num_pre_periods, a.num_post_periods,
                              a.l_vec, a.m_bar, a.alpha, a.hybrid_flag, a.hybrid_kappa,
                              a.post_period_moments_only, a.bias_direction, a.grid_points,
                              a.grid_lb, a.grid_ub, a.seed)
                          @@ [caller |-> AfterCall([betahat |-> a.betahat, sigma |-> a.sigma,
                                                    l_vec |-> a.l_vec],
                                                   ConditionalCsSdrmbStores)]
    /\ UNCHANGED prev

\* the condition numbers tried: both sides of, and exactly on, each threshold
ConditionNumbers == {<<m, x>> : m \in {1, 2, 9}, x \in {0, 9, 10, 11, 14, 15, 16}}

\* a caller invokes _check_wls_condition_number with the default thresholds
CallCheckWlsConditionNumber ==
    /\ fn = "idle"
    /\ \E results \in {None} \cup {Some(c) : c \in ConditionNumbers} :
        /\ fn' = "_check_wls_condition_number"
        /\ args' = [results |-> results]
        /\ ret' = _check_wls_condition_number(
                      results, DefaultThresholdError, DefaultThresholdWarn)
    /\ UNCHANGED <<world, prev>>

Next ==
    \/ CallCheckWlsConditionNumber
    \/ CallIdentifiedSetRmm
    \/ CallIdentifiedSetSdrmb
    \/ RecallLargerMBar
    \/ CallConditionalCsRmm
    \/ CallConditionalCsSdrmb

Spec == Init /\ [][Next]_vars

(* ------------------------------ claims -------------------------------- *)
CsFns == {"compute_conditional_cs_rmm", "compute_conditional_cs_sdrmb"}
\* the configuration k of an identified-set call fell back to the point estimate
FellBack(k) == ~ret.all_bounds[k].max_success \/ ~ret.all_bounds[k].min_success
\* l_vec' true_beta[num_pre_periods:] of the identified-set call made last
ObservedValue ==
    LET RECURSIVE S(_)
        S(i) == IF i = 0 THEN 0
                ELSE args.l_vec[i] * args.true_beta[args.num_pre_periods + i] + S(i - 1)
    IN  Rat(S(Len(args.l_vec)))
\* each s that was evaluated was evaluated with both signs
BothSigns(configs) ==
    \A k \in 1..Len(configs) : \E j \in 1..Len(configs) :
        configs[j].s = configs[k].s /\ configs[j].max_positive # configs[k].max_positive

\* C1: the accept grid a confidence-set aggregator returns is, at every grid index,
\* 1 when some per-configuration evaluation (every iterated s, both signs) returned
\* a nonzero accept there, and 0 otherwise.
C1_AcceptIsPointwiseOr ==
    (fn \in CsFns /\ ret.error = NoError /\ "accept" \in DOMAIN ret.value) =>
        /\ Len(ret.evals) > 0
        /\ BothSigns(ret.evals)
        /\ \A i \in 1..args.grid_points :
            ret.value.accept[i] =
                IF \E k \in 1..Len(ret.evals) : ret.evals[k].accept[i] # 0 THEN 1 ELSE 0

\* C1 witness: a returned grid with a point that one configuration accepts and
\* another rejects
C1_Witness ==
    /\ fn \in CsFns /\ ret.error = NoError /\ "accept" \in DOMAIN ret.value
    /\ \E i \in 1..args.grid_points :
        /\ ret.value.accept[i] = 1
        /\ \E k \in 1..Len(ret.evals) : ret.evals[k].accept[i] = 0

\* C2: the bounds an identified-set aggregator returns are the minimum of the
\* per-configuration id_lb and the maximum of the per-configuration id_ub, over
\* every iterated s and both signs.
C2_BoundsAreMinAndMax ==
    (fn \in IdSetFns /\ ret.error = NoError) =>
        /\ Len(ret.all_bounds) = Len(ret.configs)
        /\ Len(ret.configs) > 0
        /\ BothSigns(ret.configs)
        /\ \A k \in 1..Len(ret.all_bounds) :
            /\ RLeq(ret.id_lb[1], ret.all_bounds[k].id_lb)
            /\ RLeq(ret.all_bounds[k].id_ub, ret.id_ub[1])
        /\ \E k \in 1..Len(ret.all_bounds) : ret.all_bounds[k].id_lb = ret.id_lb[1]
        /\ \E k \in 1..Len(ret.all_bounds) : ret.all_bounds[k].id_ub = ret.id_ub[1]

\* C2 witness: a call whose configurations disagree on the lower bound and on the
\* upper bound, so that the minimum and the maximum each choose
C2_Witness ==
    /\ fn \in IdSetFns /\ ret.error = NoError
    /\ \E j, k \in 1..Len(ret.all_bounds) :
        RLt(ret.all_bounds[j].id_lb, ret.all_bounds[k].id_lb)
    /\ \E j, k \in 1..Len(ret.all_bounds) :
        RLt(ret.all_bounds[j].id_ub, ret.all_bounds[k].id_ub)

\* C3: every per-configuration result and every aggregated result of the
\* identified-set functions has id_lb <= id_ub.
C3_LowerBelowUpper ==
    (fn \in IdSetFns /\ ret.error = NoError) =>
        /\ \A k \in 1..Len(ret.all_bounds) :
            RLeq(ret.all_bounds[k].id_lb, ret.all_bounds[k].id_ub)
        /\ RLeq(ret.id_lb[1], ret.id_ub[1])

\* C3 witness: a call with a configuration whose two programs succeed and give a
\* proper interval, and a configuration that fell back to a point
C3_Witness ==
    /\ fn \in IdSetFns /\ ret.error = NoError
    /\ \E k \in 1..Len(ret.all_bounds) :
        ~FellBack(k) /\ RLt(ret.all_bounds[k].id_lb, ret.all_bounds[k].id_ub)
    /\ \E k \in 1..Len(ret.all_bounds) :
        FellBack(k) /\ ret.all_bounds[k].id_lb = ret.all_bounds[k].id_ub

\* C4: a configuration one of whose two programs ends without success raises
\* nothing and returns id_lb = id_ub = l_vec' true_beta[num_pre_periods:].
C4_FallbackIsObservedValue ==
    fn \in IdSetFns =>
        \A k \in 1..Len(ret.all_bounds) :
            FellBack(k) =>
                /\ ret.error = NoError
                /\ ret.all_bounds[k].id_lb = ObservedValue
                /\ ret.all_bounds[k].id_ub = ObservedValue

\* C4 witness: a configuration of the second-difference family fell back, the
\* observed value is not zero and differs from the leading coefficient
C4_Witness ==
    /\ fn = "compute_identified_set_sdrmb"
    /\ \E k \in 1..Len(ret.all_bounds) : FellBack(k)
    /\ ObservedValue # Rat(0)
    /\ ObservedValue # Rat(args.l_vec[1] * args.true_beta[1])

\* C5: when some configuration is infeasible and the others succeed, the
\* aggregator returns, without raising, the minimum id_lb and the maximum id_ub
\* of the feasible configurations.
C5_InfeasibleConfigurationIgnored ==
    LET feasible == IF fn \in IdSetFns
                    THEN {k \in 1..Len(ret.all_bounds) : ~FellBack(k)} ELSE {}
    IN  (/\ fn \in IdSetFns
         /\ feasible # {}
         /\ \E k \in 1..Len(ret.all_bounds) : FellBack(k)) =>
            /\ ret.error = NoError
            /\ \A k \in feasible :
                /\ RLeq(ret.id_lb[1], ret.all_bounds[k].id_lb)
                /\ RLeq(ret.all_bounds[k].id_ub, ret.id_ub[1])
            /\ \E k \in feasible : ret.all_bounds[k].id_lb = ret.id_lb[1]
            /\ \E k \in feasible : ret.all_bounds[k].id_ub = ret.id_ub[1]

\* C5 witness: exactly one configuration is infeasible, the others succeed and
\* one of them gives a proper interval
C5_Witness ==
    /\ fn \in IdSetFns /\ ret.error = NoError
    /\ Cardinality({k \in 1..Len(ret.all_bounds) : FellBack(k)}) = 1
    /\ \E k \in 1..Len(ret.all_bounds) :
        ~FellBack(k) /\ RLt(ret.all_bounds[k].id_lb, ret.all_bounds[k].id_ub)

\* C6: each of the four entry points raises ValueError for every
\* num_pre_periods < 2, before any constraint matrix is built, any linear
\* program is solved or any oracle is called.
C6_PrePeriodsValidatedFirst ==
    (fn \in IdSetFns \cup CsFns /\ args.num_pre_periods < 2) =>
        /\ ret.error = "ValueError"
        /\ ret.n_matrix = 0
        /\ ret.n_linprog = 0
        /\ fn \in CsFns => (ret.n_oracle = 0 /\ ret.n_lf = 0)

\* C6 witness: compute_conditional_cs_sdrmb called with no pre-period at all, a
\* recognised flag and no grid bounds
C6_Witness ==
    /\ fn = "compute_conditional_cs_sdrmb"
    /\ args.num_pre_periods = 0
    /\ args.hybrid_flag = "LF"
    /\ args.grid_lb = None /\ args.grid_ub = None
    /\ ret.error = "ValueError"

\* C7: a hybrid_flag other than "LF" and "ARP" makes both confidence-set
\* aggregators raise ValueError before any linear program is solved, any
\* constraint matrix is built or any oracle is called, grid bounds omitted or not.
C7_FlagRejectedBeforeComputation ==
    (fn \in CsFns /\ args.hybrid_flag \notin {"LF", "ARP"}) =>
        /\ ret.error = "ValueError"
        /\ ret.n_linprog = 0
        /\ ret.n_matrix = 0
        /\ ret.n_oracle = 0
        /\ ret.n_lf = 0

\* C8: with grid_lb and grid_ub omitted, the returned grid starts at or below
\* id_lb - 20 sd_theta and ends at or above id_ub + 20 sd_theta, (id_lb, id_ub)
\* being the identified set of betahat under the same restriction.
C8_GridCoversIdentifiedSet ==
    (/\ fn \in CsFns /\ ret.error = NoError /\ "grid" \in DOMAIN ret.value
     /\ args.grid_lb = None /\ args.grid_ub = None) =>
        LET l == IF args.l_vec = None THEN basis_vector(1, args.num_post_periods)
                 ELSE args.l_vec[1]
            id_set == IF fn = "compute_conditional_cs_rmm"
                      THEN IdentifiedSetRmmOf(
                               args.m_bar, args.betahat, l, args.num_pre_periods,
                               args.num_post_periods, args.monotonicity_direction)
                      ELSE IdentifiedSetSdrmbOf(
                               args.m_bar, args.betahat, l, args.num_pre_periods,
                               args.num_post_periods, args.bias_direction)
            sd_theta == SdTheta(l, args.sigma, args.num_pre_periods)
            grid == ret.value.grid
        IN  /\ RLeq(grid[1], RSub(id_set.id_lb[1], Rat(20 * sd_theta)))
            /\ RLeq(RAdd(id_set.id_ub[1], Rat(20 * sd_theta)), grid[Len(grid)])

\* C9: within one call of a confidence-set aggregator every per-configuration
\* evaluation receives the same triple (grid_lb, grid_ub, grid_points), none of
\* it None; an omitted bound is derived once, before the loop, and by no
\* per-configuration evaluation.
C9_OneGridForAllConfigurations ==
    fn \in CsFns =>
        /\ \A k \in 1..Len(ret.evals) :
            /\ ret.evals[k].grid_lb # None /\ ret.evals[k].grid_ub # None
            /\ ret.evals[k].grid_lb = ret.evals[1].grid_lb
            /\ ret.evals[k].grid_ub = ret.evals[1].grid_ub
            /\ ret.evals[k].grid_points = args.grid_points
            /\ ret.evals[k].n_derive = 0
        /\ ret.n_derive <= 1

\* C9 witness: compute_conditional_cs_rmm called without grid bounds evaluated
\* four configurations or more after deriving the bounds once
C9_Witness ==
    /\ fn = "compute_conditional_cs_rmm"
    /\ args.grid_lb = None /\ args.grid_ub = None
    /\ ret.error = NoError
    /\ Len(ret.evals) >= 4
    /\ ret.n_derive = 1

\* C10: the identified set returned at a larger m_bar contains the one returned
\* at a smaller m_bar for the same inputs, fallbacks included.
C10_MonotoneInMBar ==
    (/\ prev # <<>> /\ fn \in IdSetFns
     /\ ret.error = NoError /\ prev[1].ret.error = NoError) =>
        /\ RLeq(ret.id_lb[1], prev[1].ret.id_lb[1])
        /\ RLeq(prev[1].ret.id_ub[1], ret.id_ub[1])

\* C10 witness: the set grew strictly from the smaller m_bar to the larger one,
\* and a configuration that had fallen back at the smaller is feasible at the larger
C10_Witness ==
    /\ prev # <<>> /\ fn \in IdSetFns
    /\ ret.error = NoError /\ prev[1].ret.error = NoError
    /\ prev[1].args.m_bar < args.m_bar
    /\ RLt(prev[1].ret.id_ub[1], ret.id_ub[1])
    /\ \E k \in 1..Len(ret.all_bounds) :
        /\ ~FellBack(k)
        /\ ~prev[1].ret.all_bounds[k].max_success

\* C11: with m_bar = 0 and one post-period the identified set is the single point
\* l_vec' true_beta[num_pre_periods:]; for three pre-periods and the zero vector
\* it is {0}.
C11_PointAtZeroMBar ==
    (/\ fn \in IdSetFns /\ ret.error = NoError
     /\ args.m_bar = 0 /\ args.num_post_periods = 1) =>
        /\ ret.id_lb[1] = ObservedValue
        /\ ret.id_ub[1] = ObservedValue

\* C11 witness: three pre-periods, one post-period, the zero coefficient vector and
\* m_bar = 0 give the set {0}, the programs of some configuration succeeding
C11_Witness ==
    /\ fn \in IdSetFns /\ ret.error = NoError
    /\ args.m_bar = 0 /\ args.num_pre_periods = 3 /\ args.num_post_periods = 1
    /\ args.true_beta = <<0, 0, 0, 0>>
    /\ ret.id_lb = Some(Rat(0)) /\ ret.id_ub = Some(Rat(0))
    /\ \E k \in 1..Len(ret.all_bounds) : ~FellBack(k)

\* C12: for both families and every configuration, the constraint vector paired
\* with the composed matrix A is the zero vector with one entry per row of A.
C12_ConstraintVectorIsZero ==
    /\ fn \in IdSetFns =>
        \A k \in 1..Len(ret.all_bounds) :
            /\ Len(ret.all_bounds[k].d_vec) = ret.all_bounds[k].n_rows
            /\ \A i \in 1..Len(ret.all_bounds[k].d_vec) : ret.all_bounds[k].d_vec[i] = 0
    /\ fn \in CsFns =>
        \A k \in 1..Len(ret.evals) : \A c \in 1..Len(ret.evals[k].calls) :
            /\ Len(ret.evals[k].calls[c].d_vec) = Len(ret.evals[k].calls[c].a_matrix)
            /\ \A i \in 1..Len(ret.evals[k].calls[c].d_vec) : ret.evals[k].calls[c].d_vec[i] = 0

\* C12 witness: an RMM confidence-set call with one post-period handed an oracle a
\* matrix with fewer rows than the composed one, and a vector of that many zeros
C12_Witness ==
    /\ fn = "compute_conditional_cs_rmm" /\ ret.error = NoError
    /\ args.num_post_periods = 1
    /\ \E k \in 1..Len(ret.evals) :
        /\ Len(ret.evals[k].calls) = 1
        /\ Len(ret.evals[k].calls[1].d_vec) > 0
        /\ Len(ret.evals[k].calls[1].d_vec) <
               Len(RmmMatrixOf(args.num_pre_periods, args.num_post_periods, args.m_bar,
                               ret.evals[k].s, ret.evals[k].max_positive,
                               args.monotonicity_direction))

C18_SZeroEvaluated ==
    (fn = "compute_conditional_cs_sdrmb" /\ ret.error = NoError) =>
        \A s \in (-(args.num_pre_periods - 2))..0 : \A max_positive \in BOOLEAN :
            \E k \in 1..Len(ret.evals) :
                ret.evals[k].s = s /\ ret.evals[k].max_positive = max_positive

\* C19: with num_pre_periods >= 2 (and a hybrid_flag the function accepts) the SDRMB
\* entry points evaluate at least one (s, sign) configuration and return a result;
\* they raise nothing.
C19_TwoPrePeriodsSuffice ==
    /\ (fn = "compute_identified_set_sdrmb" /\ args.num_pre_periods >= 2) =>
           /\ ret.error = NoError
           /\ Len(ret.all_bounds) >= 1
           /\ ret.id_lb # None /\ ret.id_ub # None
    /\ (fn = "compute_conditional_cs_sdrmb" /\ args.num_pre_periods >= 2
           /\ args.hybrid_flag \in {"LF", "ARP"}) =>
           /\ ret.error = NoError
           /\ Len(ret.evals) >= 1
           /\ ret.grid # None /\ ret.accept # None

\* C20: in the fixed-(s, sign) identified-set solvers of both families every
\* coordinate of delta is free: the LP is given the box (None, None) for each
\* coordinate, and whenever A*delta <= 0, delta_pre = true_beta[:num_pre_periods] has
\* a vertex the LP succeeds, whatever the signs of the pre-period coefficients.
C20_VariablesFree ==
    (fn \in IdSetFns /\ ret.error = NoError) =>
        \A k \in 1..Len(ret.all_bounds) :
            LET n == args.num_pre_periods + args.num_post_periods
                A == IF fn = "compute_identified_set_rmm"
                     THEN RmmMatrixOf(args.num_pre_periods, args.num_post_periods, args.m_bar,
                                      ret.configs[k].s, ret.configs[k].max_positive,
                                      args.monotonicity_direction)
                     ELSE SdrmbMatrixOf(args.num_pre_periods, args.num_post_periods, args.m_bar,
                                        ret.configs[k].s, ret.configs[k].max_positive,
                                        args.bias_direction)
                region == Vertices(ReducedRows(
                              A, ret.all_bounds[k].d_vec,
                              PrePeriodEquality(args.num_pre_periods, args.num_post_periods),
                              PreBlock(args.true_beta, args.num_pre_periods), FreeBounds(n)))
            IN  /\ region # {} => ~FellBack(k)
                /\ ret.all_bounds[k].bounds = FreeBounds(n)

\* C21: every per-configuration evaluation makes exactly one oracle call, to
\* compute_arp_ci when num_post_periods = 1 and to compute_arp_nuisance_ci when
\* num_post_periods > 1, in the RMM and in the SDRMB family.
C21_OracleByPostPeriods ==
    fn \in CsFns =>
        \A k \in 1..Len(ret.evals) :
            ret.evals[k].error = NoError =>
                /\ Len(ret.evals[k].calls) = 1
                /\ ret.evals[k].calls[1].oracle =
                       IF args.num_post_periods = 1 THEN "compute_arp_ci"
                       ELSE "compute_arp_nuisance_ci"

\* C22: with one post-period the matrix handed to the oracle is the composed A
\* restricted to the rows with a nonzero coefficient on the post-period column when
\* post_period_moments_only is false (A itself if there is no such row), and the
\* whole composed A when it is true, in both families.
C22_SinglePostPeriodRows ==
    (fn \in CsFns /\ args.num_post_periods = 1) =>
        \A k \in 1..Len(ret.evals) :
            ret.evals[k].error = NoError =>
                LET A == IF fn = "compute_conditional_cs_rmm"
                         THEN RmmMatrixOf(args.num_pre_periods, 1, args.m_bar, ret.evals[k].s,
                                          ret.evals[k].max_positive, args.monotonicity_direction)
                         ELSE SdrmbMatrixOf(args.num_pre_periods, 1, args.m_bar, ret.evals[k].s,
                                            ret.evals[k].max_positive, args.bias_direction)
                    last == args.num_pre_periods + 1
                    keep == {r \in 1..Len(A) : A[r][last] # 0}
                    passed == ret.evals[k].calls[1].a_matrix
                IN  IF args.post_period_moments_only \/ keep = {}
                    THEN passed = A
                    ELSE /\ Len(passed) = Cardinality(keep)
                         /\ \A r \in 1..Len(passed) : passed[r][last] # 0
                         /\ \A r \in keep : \E q \in 1..Len(passed) : passed[q] = A[r]

\* C23: with more than one post-period the oracle receives the composed A with all
\* its rows; rows_for_arp is the set of rows with a nonzero entry in some post-period
\* column when post_period_moments_only is true and None when it is false.
C23_RowsForArp ==
    (fn \in CsFns /\ args.num_post_periods > 1) =>
        \A k \in 1..Len(ret.evals) :
            ret.evals[k].error = NoError =>
                LET A == IF fn = "compute_conditional_cs_rmm"
                         THEN _create_relative_magnitudes_monotonicity_constraint_matrix(
                                  args.num_pre_periods, args.num_post_periods, args.m_bar,
                                  ret.evals[k].s, ret.evals[k].max_positive,
                                  args.monotonicity_direction)
                         ELSE _create_sdrmb_constraint_matrix(
                                  args.num_pre_periods, args.num_post_periods, args.m_bar,
                                  ret.evals[k].s, ret.evals[k].max_positive, args.bias_direction)
                    n == args.num_pre_periods + args.num_post_periods
                    call == ret.evals[k].calls[1]
                IN  /\ call.a_matrix = A
                    /\ call.rows_for_arp =
                           IF args.post_period_moments_only
                           THEN Some({r \in 1..Len(A) :
                                        \E j \in (args.num_pre_periods + 1)..n : A[r][j] # 0})
                           ELSE None

\* C23 witness: a returned call with two post-periods and post_period_moments_only
\* whose selector names some rows of the matrix and leaves others out
C23_Witness ==
    /\ fn \in CsFns /\ ret.error = NoError
    /\ args.num_post_periods = 2 /\ args.post_period_moments_only
    /\ \E k \in 1..Len(ret.evals) :
          LET call == ret.evals[k].calls[1]
          IN  /\ call.rows_for_arp # None
              /\ call.rows_for_arp[1] # {}
              /\ call.rows_for_arp[1] # 1..Len(call.a_matrix)

\* C24: with hybrid_flag = "LF" every oracle call carries a least-favorable critical
\* value computed from A*sigma*A' of the matrix passed, the effective hybrid_kappa and
\* the caller's seed, for one and for several post-periods; with "ARP" none is
\* computed.
C24_LeastFavorableCvWheneverLF ==
    fn \in CsFns =>
        \A k \in 1..Len(ret.evals) :
            ret.evals[k].error = NoError =>
                \A c \in 1..Len(ret.evals[k].calls) :
                    LET call == ret.evals[k].calls[c]
                        kappa == IF args.hybrid_kappa = None THEN DefaultKappa(args.alpha)
                                 ELSE args.hybrid_kappa[1]
                    IN  IF args.hybrid_flag = "LF"
                        THEN /\ call.lf_cv =
                                  Some(_compute_least_favorable_cv(
                                           call.a_matrix, args.sigma, kappa, args.seed))
                             /\ ret.evals[k].n_lf = 1
                        ELSE /\ call.lf_cv = None
                             /\ ret.evals[k].n_lf = 0

\* C25: the two LPs of one (s, sign) configuration have the same constraints (the
\* composed A with a zero right-hand side, and [I | 0]*delta = true_beta[:num_pre_periods],
\* no equality on the post-period block) and objectives of opposite sign, 0 on the
\* pre-period coordinates and l_vec on the post-period ones; on success
\* id_ub = l'beta_post - min l'delta_post and id_lb = l'beta_post - max l'delta_post
\* over the feasible region of the LP, in the RMM and in the SDRMB solver alike.
C25_TwoProgramsOneRegion ==
    (fn \in IdSetFns /\ ret.error = NoError) =>
        \A k \in 1..Len(ret.all_bounds) :
            LET b == ret.all_bounds[k]
                npre == args.num_pre_periods
                n == npre + args.num_post_periods
                l == args.l_vec
                A == IF fn = "compute_identified_set_rmm"
                     THEN RmmMatrixOf(npre, args.num_post_periods, args.m_bar,
                                      ret.configs[k].s, ret.configs[k].max_positive,
                                      args.monotonicity_direction)
                     ELSE SdrmbMatrixOf(npre, args.num_post_periods, args.m_bar,
                                        ret.configs[k].s, ret.configs[k].max_positive,
                                        args.bias_direction)
                l_beta_post == Rat(Dot(l, SubSeq(args.true_beta, npre + 1, n)))
                V == Vertices(ReducedRows(b.lp_min.A_ub, b.lp_min.b_ub, b.lp_min.A_eq,
                                          b.lp_min.b_eq, b.lp_min.bounds))
                values == {Norm(l[1] * v[1] + (IF Len(l) > 1 THEN l[2] * v[2] ELSE 0), v[3]) :
                              v \in V}
            IN  /\ b.lp_max.A_ub = b.lp_min.A_ub /\ b.lp_max.b_ub = b.lp_min.b_ub
                /\ b.lp_max.A_eq = b.lp_min.A_eq /\ b.lp_max.b_eq = b.lp_min.b_eq
                /\ b.lp_max.bounds = b.lp_min.bounds
                /\ b.lp_min.A_ub = A
                /\ b.lp_min.b_ub = [r \in 1..Len(A) |-> 0]
                /\ b.lp_min.A_eq =
                       [r \in 1..npre |-> [j \in 1..n |-> IF j = r THEN 1 ELSE 0]]
                /\ b.lp_min.b_eq = [r \in 1..npre |-> args.true_beta[r]]
                /\ b.lp_min.c = [j \in 1..n |-> IF j <= npre THEN 0 ELSE l[j - npre]]
                /\ b.lp_max.c = [j \in 1..n |-> -b.lp_min.c[j]]
                /\ ~FellBack(k) =>
                       /\ values # {}
                       /\ b.id_ub = RSub(l_beta_post, RMinSet(values))
                       /\ b.id_lb = RSub(l_beta_post, RMaxSet(values))

\* C25 witness: a configuration of compute_identified_set_sdrmb that succeeded with
\* an interval of positive width, so that minimum and maximum differ
C25_Witness ==
    /\ fn = "compute_identified_set_sdrmb" /\ ret.error = NoError
    /\ \E k \in 1..Len(ret.all_bounds) :
          /\ ~FellBack(k)
          /\ ret.all_bounds[k].id_lb # ret.all_bounds[k].id_ub
          /\ \E j \in 1..args.num_pre_periods : args.true_beta[j] # 0

\* C26: the composed matrix is the stack [A_primary; A_secondary], no row removed,
\* merged or moved: rows(A_primary) + rows(A_secondary) rows of num_pre_periods +
\* num_post_periods columns, so A*delta <= 0 holds exactly when A_primary*delta <= 0
\* and A_secondary*delta <= 0 both hold.
C26_ComposedIsStack ==
    (fn \in IdSetFns /\ ret.error = NoError) =>
        \A k \in 1..Len(ret.all_bounds) :
            LET npre == args.num_pre_periods
                npost == args.num_post_periods
                cfg == ret.configs[k]
                rmm == fn = "compute_identified_set_rmm"
                primary ==
                    IF rmm
                    THEN _create_relative_magnitudes_constraint_matrix(
                             npre, npost, args.m_bar, cfg.s, cfg.max_positive)
                    ELSE create_sdrm_constraint_matrix(
                             npre, npost, args.m_bar, cfg.s, cfg.max_positive)
                secondary ==
                    IF rmm
                    THEN create_monotonicity_constraint_matrix(
                             npre, npost, args.monotonicity_direction)
                    ELSE create_sign_constraint_matrix(npre, npost, args.bias_direction)
                A == ret.all_bounds[k].lp_min.A_ub
                In(M, delta) == \A r \in 1..Len(M) : Dot(M[r], delta) <= 0
            IN  /\ Len(A) = Len(primary) + Len(secondary)
                /\ \A r \in 1..Len(A) : Len(A[r]) = npre + npost
                /\ \A r \in 1..Len(primary) : A[r] = primary[r]
                /\ \A r \in 1..Len(secondary) : A[Len(primary) + r] = secondary[r]
                /\ \A delta \in [1..(npre + npost) -> {-1, 1}] :
                       In(A, delta) <=> (In(primary, delta) /\ In(secondary, delta))

\* C26 witness: an SDRMB configuration whose composed matrix has rows of both parts,
\* the first sign row differing from the first second-difference row
C26_Witness ==
    /\ fn = "compute_identified_set_sdrmb" /\ ret.error = NoError
    /\ args.num_post_periods = 2
    /\ \E k \in 1..Len(ret.all_bounds) :
          LET A == ret.all_bounds[k].lp_min.A_ub
              a_sign == create_sign_constraint_matrix(
                            args.num_pre_periods, args.num_post_periods, args.bias_direction)
          IN  /\ Len(A) > Len(a_sign) /\ Len(a_sign) = 2
              /\ A[1] # a_sign[1]
              /\ A[Len(A)] = a_sign[2]

C28_ConditionNumberOutcomes ==
    fn = "_check_wls_condition_number" =>
        IF args.results = None
        THEN ret.error = NoError /\ ret.warnings = <<>>
        ELSE LET m == args.results[1][1]
                 x == args.results[1][2]
                 aboveError == x > 15 \/ (x = 15 /\ m > 1)
                 aboveWarn == x > 10 \/ (x = 10 /\ m > 1)
             IN  /\ aboveError => (ret.error = "ValueError" /\ ret.warnings = <<>>)
                 /\ (aboveWarn /\ ~aboveError) =>
                        (ret.error = NoError /\ ret.warnings = <<"UserWarning">>)
                 /\ ~aboveWarn => (ret.error = NoError /\ ret.warnings = <<>>)

\* C28 witness: a condition number of 2e15 made the check raise ValueError
C28_Witness ==
    /\ fn = "_check_wls_condition_number"
    /\ args.results = Some(<<2, 15>>)
    /\ ret.error = "ValueError"

\* C29: whenever some (s, sign) configuration falls back, it is kept in the union
\* as the degenerate interval {l'beta_post}, and the interval returned by
\* compute_identified_set_rmm / compute_identified_set_sdrmb contains
\* l_vec' * true_beta[num_pre_periods:].
C29_FallbackPointInResult ==
    (fn \in IdSetFns /\ ret.error = NoError
        /\ \E k \in 1..Len(ret.all_bounds) : FellBack(k)) =>
        LET n == args.num_pre_periods + args.num_post_periods
            point == Rat(Dot(args.l_vec, SubSeq(args.true_beta, args.num_pre_periods + 1, n)))
        IN  /\ RLeq(ret.id_lb[1], point)
            /\ RLeq(point, ret.id_ub[1])
            /\ Len(ret.all_bounds) = Len(ret.configs)
            /\ \A k \in 1..Len(ret.all_bounds) :
                   FellBack(k) => /\ ret.all_bounds[k].id_lb = point
                                  /\ ret.all_bounds[k].id_ub = point

\* C29 witness: one configuration fell back, another succeeded with a proper
\* interval, and l'beta_post is not zero
C29_Witness ==
    /\ fn \in IdSetFns /\ ret.error = NoError
    /\ \E j, k \in 1..Len(ret.all_bounds) :
          /\ FellBack(j) /\ ~FellBack(k)
          /\ ret.all_bounds[k].id_lb # ret.all_bounds[k].id_ub
          /\ ret.all_bounds[j].id_lb # Rat(0)

\* C30: at every oracle call of a per-configuration evaluator the constraint vector
\* is all zeros and as long as the constraint matrix has rows, also after the RMM
\* single-post-period row filter; the matrix passed is never empty: the filter keeps
\* the rows with a nonzero coefficient on the post-period column, and passes A and d
\* unfiltered when there is none.
C30_VectorMatchesMatrixAtOracle ==
    fn \in CsFns =>
        \A k \in 1..Len(ret.evals) : \A c \in 1..Len(ret.evals[k].calls) :
            LET call == ret.evals[k].calls[c]
                filtered == fn = "compute_conditional_cs_rmm" /\ args.num_post_periods = 1
                A == RmmMatrixOf(args.num_pre_periods, args.num_post_periods, args.m_bar,
                                 ret.evals[k].s, ret.evals[k].max_positive,
                                 args.monotonicity_direction)
                keep == {r \in 1..Len(A) : A[r][Len(A[r])] # 0}
            IN  /\ Len(call.a_matrix) >= 1
                /\ Len(call.d_vec) = Len(call.a_matrix)
                /\ \A r \in 1..Len(call.d_vec) : call.d_vec[r] = 0
                /\ filtered =>
                       IF keep = {} THEN call.a_matrix = A
                       ELSE /\ Len(call.a_matrix) = Cardinality(keep)
                            /\ \A r \in 1..Len(call.a_matrix) :
                                   call.a_matrix[r][Len(call.a_matrix[r])] # 0

\* C30 witness: an ARP-flag RMM evaluation with one post-period handed the oracle a
\* matrix with fewer rows than the composed one, and a vector of that many zeros
C30_Witness ==
    /\ fn = "compute_conditional_cs_rmm" /\ args.hybrid_flag = "ARP"
    /\ args.num_post_periods = 1 /\ args.num_pre_periods = 3
    /\ \E k \in 1..Len(ret.evals) :
          /\ ret.evals[k].error = NoError
          /\ LET call == ret.evals[k].calls[1]
                  A == RmmMatrixOf(3, 1, args.m_bar, ret.evals[k].s,
                                   ret.evals[k].max_positive, args.monotonicity_direction)
              IN  /\ Len(call.a_matrix) < Len(A)
                  /\ call.d_vec = [r \in 1..Len(call.a_matrix) |-> 0]

====
